---- MODULE Spec2Model ----
(***************************************************************************)
(* The two jobs of the pipeline as one state machine: the sitemap crawler  *)
(* of crawler.py (process_updates and its helpers) and the body extraction *)
(* of extract.py (process_extractions).  One behaviour is a sequence of    *)
(* processes of one job, run one after the other against the same GCS      *)
(* bucket; SpecConcurrent has two crawler processes that run at the same   *)
(* time.                                                                   *)
(***************************************************************************)
EXTENDS Integers, Sequences, FiniteSets, TLC

\* ------------------------------------------------------------- bounds
\* longest sitemap listing a run reads
MaxList == 3
\* total number of pages downloaded successfully over all runs
MaxFetches == 3
\* largest --meta-chunk-size tried
MaxChunkSize == 2
\* failures of the environment over all runs: a download, an upload, the
\* listing or the loading of the ledger failing, a page without body, a
\* process being killed
MaxFaults == 2
\* time.sleep(3) after every downloaded page
SleepSecs == 3
\* time.sleep(1) after every chunk the extraction flushes inside its loop
ExtractSleepSecs == 1

\* The clock is read where the code reads it and advances where the code
\* sleeps; everywhere else it may stay within the same second.  The instants
\* a sitemap may name cover every reading of the clock, so a lastmod can be
\* earlier than, equal to or later than any fetched_at.
MaxClock == SleepSecs * MaxFetches

URLs == {"/a", "/b"}

\* ------------------------------------------------------------- values
\* Python's None
None == [kind |-> "None"]

\* A timestamp string is modelled by the instant it names (whole seconds)
\* and its timezone suffix: "+00:00", "Z" or "" (no timezone information).
IsoString(t, tz) == [kind |-> "iso", t |-> t, tz |-> tz]
\* a string that is no ISO-8601 timestamp
Malformed == [kind |-> "malformed"]

\* what the <lastmod> element of a sitemap entry may hold
LastMods ==
    {None, Malformed} \cup
    {IsoString(t, tz) : t \in 0..MaxClock, tz \in {"+00:00", "Z", ""}}

\* a datetime object: aware (carries tzinfo) or naive
DateTime(t, aware) == [kind |-> "datetime", t |-> t, aware |-> aware]
ValueError == [kind |-> "ValueError"]

\* lastmod.replace("Z", "+00:00")
ReplaceZ(s) ==
    IF s.kind = "iso" /\ s.tz = "Z" THEN IsoString(s.t, "+00:00") ELSE s

\* a lenient parser: what it cannot read becomes the earliest instant
FromIsoFormatLenient(s) ==
    IF s.kind # "iso" THEN DateTime(0, TRUE)
    ELSE IF s.tz = "Z" THEN DateTime(0, TRUE)
    ELSE DateTime(s.t, s.tz # "")

\* datetime.fromisoformat: garbage and the "Z" suffix are rejected
FromIsoFormat(s) ==
    IF s.kind # "iso" THEN ValueError
    ELSE IF s.tz = "Z" THEN ValueError
    ELSE DateTime(s.t, s.tz # "")

\* datetime.now(timezone.utc).isoformat()
NowIso(t) == IsoString(t, "+00:00")

\* a > b raises TypeError when one datetime is aware and the other naive
Comparable(a, b) == a.aware = b.aware
DateTimeGt(a, b) == a.t > b.t

\* f"{next_id}.html"
HtmlFilename(id) == <<id, ".html">>

\* a record that names the file of the id after its own
NewRecordNamingNextFile(id, t, url) ==
    [id |-> id, filename |-> HtmlFilename(id + 1), fetched_at |-> NowIso(t), url |-> url]

\* the in-memory meta record of a downloaded page
NewRecord(id, t, url) ==
    [id |-> id, filename |-> HtmlFilename(id), fetched_at |-> NowIso(t), url |-> url]

\* a chunk line written as the lines of LOCAL_META_FILE are: the whole record
OutRecordWhole(r) == r

\* one line of a meta chunk file
OutRecord(r) == [id |-> r.id, filename |-> r.filename, fetched_at |-> r.fetched_at]

SetMax(S) == CHOOSE m \in S : \A x \in S : x <= m

\* ------------------------------------------------------------- state
VARIABLES
    stage,            \* the job the processes of this behaviour run
    \* the world outside the process
    now,              \* wall clock, whole seconds (UTC)
    sitemap_xml,      \* what sitemap_url serves: a fixed listing, or anything
    gcs_meta,         \* blobs under GCS_META_PREFIX: set of [ts, num, lines]
    local_meta_file,  \* LOCAL_META_FILE: [exists, lines]
    peer,             \* a second process started on the same machine while
                      \* this one runs: its fields while it is not the one
                      \* taking steps
    \* the running process (process_updates)
    pc,
    meta_chunk_size,
    idx,              \* entries of sitemap_entries the loop has finished
    previous_meta,
    url_latest,
    new_meta_records,
    cumulative_meta,
    next_id,
    chunk_counter,
    \* history, for stating the properties
    assigned,         \* every id given to a record, in order, over all runs
    uploaded_urls,    \* pinned sitemap only: urls of the records of every
                      \* chunk uploaded so far
    html_written,     \* this run: names of the files written to LOCAL_HTML_DIR
    outcomes,         \* this run: what happened to each entry, in order
    flushes,          \* this run: [num, ts, lines, uploaded] per flush
    listing_failed,   \* this run: parse_sitemap hit an except branch
                      \* (extraction: the sort of input_dir raised)
    load_failed,      \* this run: load_previous_meta hit its except branch
    faults,           \* failures of the environment so far, over all runs
    previous_run      \* pinned sitemap only: how the process before this
                      \* one had ended

world == <<stage, now, sitemap_xml, gcs_meta, local_meta_file, peer>>
process == <<pc, meta_chunk_size, idx, previous_meta, url_latest,
             new_meta_records, cumulative_meta, next_id, chunk_counter>>
history == <<assigned, uploaded_urls, html_written, outcomes, flushes,
             listing_failed, load_failed, faults, previous_run>>
vars == <<world, process, history>>

Terminal == {"idle", "done", "raised", "killed"}
Running == {"loop", "flushcheck"}

\* ------------------------------------------------------------- helpers
\* sitemap_xml is either unconstrained (each run may be served any listing
\* of at most MaxList entries) or one fixed listing that every run is served.
AnySitemap == [pinned |-> FALSE, entries |-> <<>>]

\* what the (i+1)-th tuple of sitemap_entries may be when its url is `url`
LastModsAt(i, url) ==
    IF sitemap_xml.pinned
    THEN IF sitemap_xml.entries[i + 1].url = url
         THEN {sitemap_xml.entries[i + 1].lastmod} ELSE {}
    ELSE LastMods

\* the loop of line 264 has an entry left after i entries
HasNext(i) ==
    /\ ~listing_failed
    /\ i < MaxList
    /\ sitemap_xml.pinned => i < Len(sitemap_xml.entries)

\* the loop of line 264 is over after i entries
AtEnd(i) ==
    (sitemap_xml.pinned /\ ~listing_failed) => i = Len(sitemap_xml.entries)

\* load_previous_meta, lines 157-167: blobs are listed in name order and a
\* later blob replaces the candidate only when its timestamp is strictly
\* greater, so among equal timestamps the first listed one is kept.
LatestBlob(blobs) ==
    CHOOSE b \in blobs :
        \A c \in blobs : \/ c.ts < b.ts
                         \/ (c.ts = b.ts /\ b.num <= c.num)

NoMetaFile == [exists |-> FALSE, lines |-> <<>>]

\* load_previous_meta: the file LOCAL_META_FILE holds after lines 153-176
\* when no exception is raised
MetaFileAfterDownload(blobs, file) ==
    IF blobs # {}
    THEN [exists |-> TRUE, lines |-> LatestBlob(blobs).lines]
    ELSE file

\* load_previous_meta, lines 177-185
ReadMetaFile(file) == IF file.exists THEN file.lines ELSE <<>>

\* a lookup that keeps the first record it meets for a location
UrlLatestStepFirstWins(acc, record) ==
    IF "url" \notin DOMAIN record \/ "fetched_at" \notin DOMAIN record
    THEN acc
    ELSE LET fetched_at == FromIsoFormat(record.fetched_at)
             put == [u \in DOMAIN acc \cup {record.url} |->
                        IF u = record.url THEN fetched_at ELSE acc[u]]
         IN  IF fetched_at = ValueError THEN acc
             ELSE IF record.url \in DOMAIN acc THEN acc ELSE put

\* process_updates, lines 241-251: one step of the url_latest loop
UrlLatestStep(acc, record) ==
    IF "url" \notin DOMAIN record \/ "fetched_at" \notin DOMAIN record
    THEN acc
    ELSE LET fetched_at == FromIsoFormat(record.fetched_at)
             put == [u \in DOMAIN acc \cup {record.url} |->
                        IF u = record.url THEN fetched_at ELSE acc[u]]
         IN  IF fetched_at = ValueError THEN acc
             ELSE IF record.url \in DOMAIN acc
                  THEN IF ~Comparable(fetched_at, acc[record.url]) THEN acc
                       ELSE IF DateTimeGt(fetched_at, acc[record.url])
                            THEN put ELSE acc
                  ELSE put

RECURSIVE BuildUrlLatest(_, _)
BuildUrlLatest(records, acc) ==
    IF records = <<>> THEN acc
    ELSE BuildUrlLatest(Tail(records), UrlLatestStep(acc, Head(records)))

EmptyDict == [u \in {} |-> None]

\* the environment fails n more times, within the budget
Fail(n) ==
    /\ faults + n <= MaxFaults
    /\ faults' = faults + n

\* process_updates, lines 255-261
InitialNextId(records) ==
    IF records = <<>> THEN 1
    ELSE IF \A i \in 1..Len(records) : "id" \in DOMAIN records[i]
         THEN SetMax({records[i].id : i \in 1..Len(records)}) + 1
         ELSE 1

\* process_updates, lines 266-273
SitemapLastmod(lastmod) ==
    IF lastmod = None THEN None
    ELSE LET d == FromIsoFormat(ReplaceZ(lastmod))
         IN  IF d = ValueError THEN None ELSE d

\* the other reading of lines 275-282: a known url without a usable lastmod
\* is skipped
DecideSkippingUndated(url, lastmod, latest) ==
    LET sitemap_lastmod == SitemapLastmod(lastmod)
    IN  IF url \in DOMAIN latest
        THEN IF sitemap_lastmod = None THEN "skip"
             ELSE IF ~Comparable(sitemap_lastmod, latest[url]) THEN "TypeError"
             ELSE IF DateTimeGt(sitemap_lastmod, latest[url])
                  THEN "fetch" ELSE "skip"
        ELSE "fetch"

\* process_updates, lines 275-282: "fetch", "skip", or the TypeError that
\* the comparison of line 276 raises outside any try block
Decide(url, lastmod, latest) ==
    LET sitemap_lastmod == SitemapLastmod(lastmod)
    IN  IF url \in DOMAIN latest /\ sitemap_lastmod # None
        THEN IF ~Comparable(sitemap_lastmod, latest[url]) THEN "TypeError"
             ELSE IF DateTimeGt(sitemap_lastmod, latest[url])
                  THEN "fetch" ELSE "skip"
        ELSE "fetch"

\* the decisions lines 265-282 can reach for the next entry, if it is `url`
Decisions(url) ==
    {Decide(url, lastmod, url_latest) : lastmod \in LastModsAt(idx, url)}

\* upload_to_gcs of a meta chunk: the blob of that name is created or
\* replaced
PutBlob(blobs, ts, num, lines) ==
    {b \in blobs : ~(b.ts = ts /\ b.num = num)}
        \cup {[ts |-> ts, num |-> num, lines |-> lines]}

\* save_meta_chunk, lines 198-204
ChunkLines(records) == [i \in 1..Len(records) |-> OutRecord(records[i])]

\* ------------------------------------------------------------- Init
NoProcess ==
    /\ meta_chunk_size = 1
    /\ idx = 0
    /\ previous_meta = <<>>
    /\ url_latest = EmptyDict
    /\ new_meta_records = <<>>
    /\ cumulative_meta = <<>>
    /\ next_id = 1
    /\ chunk_counter = 0
    /\ outcomes = <<>>
    /\ flushes = <<>>
    /\ html_written = {}
    /\ listing_failed = FALSE
    /\ load_failed = FALSE

\* no second process
NoPeer ==
    [pc |-> "idle", meta_chunk_size |-> 1, idx |-> 0, previous_meta |-> <<>>,
     url_latest |-> EmptyDict, new_meta_records |-> <<>>,
     cumulative_meta |-> <<>>, next_id |-> 1, chunk_counter |-> 0,
     outcomes |-> <<>>, flushes |-> <<>>, html_written |-> {},
     listing_failed |-> FALSE, load_failed |-> FALSE]

Empty ==
    /\ now = 0
    /\ peer = NoPeer
    /\ gcs_meta = {}
    /\ local_meta_file = NoMetaFile
    /\ pc = "idle"
    /\ assigned = <<>>
    /\ uploaded_urls = {}
    /\ faults = 0
    /\ previous_run = "none"
    /\ NoProcess

Init ==
    /\ stage \in {"crawl", "extract"}
    /\ sitemap_xml = AnySitemap
    /\ Empty

\* ------------------------------------------------------------- crawler
\* how the process that has ended did end: "clean" when process_updates
\* returned having read the listing and the ledger, downloaded every page it
\* asked for and uploaded every chunk
HowEnded ==
    IF pc = "done"
    THEN IF /\ ~listing_failed
            /\ ~load_failed
            /\ \A i \in 1..Len(outcomes) : outcomes[i] # "errored"
            /\ \A i \in 1..Len(flushes) : flushes[i].uploaded
         THEN "clean" ELSE "unclean"
    ELSE IF pc = "idle" THEN "none" ELSE pc

\* process_updates, lines 233-263, with the records load_previous_meta
\* returned and the file it left behind
Begin(size, list_ok, records, file, load_ok) ==
    /\ stage = "crawl"
    /\ pc \in Terminal
    /\ pc' = "loop"
    /\ meta_chunk_size' = size
    /\ listing_failed' = ~list_ok
    /\ load_failed' = ~load_ok
    /\ local_meta_file' = file
    /\ previous_meta' = records
    /\ url_latest' = BuildUrlLatest(records, EmptyDict)
    /\ new_meta_records' = <<>>
    /\ cumulative_meta' = records
    /\ next_id' = InitialNextId(records)
    /\ chunk_counter' = 0
    /\ idx' = 0
    /\ outcomes' = <<>>
    /\ flushes' = <<>>
    /\ html_written' = {}
    /\ previous_run' = IF sitemap_xml.pinned THEN HowEnded ELSE "none"
    /\ Fail((IF list_ok THEN 0 ELSE 1) + (IF load_ok THEN 0 ELSE 1))
    /\ UNCHANGED <<stage, now, sitemap_xml, gcs_meta, peer, assigned,
                   uploaded_urls>>

\* A new process starts, on the instance of the last run or on a fresh one
\* (empty /tmp); the bucket answers and load_previous_meta reaches line 185.
StartRun ==
    \E size \in 1..MaxChunkSize, list_ok \in BOOLEAN, fresh \in BOOLEAN :
        LET before == IF fresh THEN NoMetaFile ELSE local_meta_file
            after == MetaFileAfterDownload(gcs_meta, before)
        IN  Begin(size, list_ok, ReadMetaFile(after), after, TRUE)

\* A new process starts; listing or downloading the blobs raises and
\* load_previous_meta returns the empty list at line 176.
StartRunLoadFails ==
    \E size \in 1..MaxChunkSize, list_ok \in BOOLEAN, fresh \in BOOLEAN :
        LET before == IF fresh THEN NoMetaFile ELSE local_meta_file
        IN  Begin(size, list_ok, <<>>, before, FALSE)

\* a skip that uses up the id the page would have been given
SkipItemConsumingId ==
    /\ stage = "crawl"
    /\ pc = "loop"
    /\ HasNext(idx)
    /\ \E url \in URLs : "skip" \in Decisions(url)
    /\ idx' = idx + 1
    /\ next_id' = next_id + 1
    /\ outcomes' = Append(outcomes, "skipped")
    /\ UNCHANGED <<world, pc, meta_chunk_size, previous_meta, url_latest,
                   new_meta_records, cumulative_meta, chunk_counter,
                   assigned, uploaded_urls, html_written, flushes,
                   listing_failed, load_failed, faults, previous_run>>

\* lines 264-283 decide "skip": the loop goes on to the next entry
SkipItem ==
    /\ stage = "crawl"
    /\ pc = "loop"
    /\ HasNext(idx)
    /\ \E url \in URLs : "skip" \in Decisions(url)
    /\ idx' = idx + 1
    /\ outcomes' = Append(outcomes, "skipped")
    /\ UNCHANGED <<world, pc, meta_chunk_size, previous_meta, url_latest,
                   new_meta_records, cumulative_meta, next_id, chunk_counter,
                   assigned, uploaded_urls, html_written, flushes,
                   listing_failed, load_failed, faults, previous_run>>

\* line 276 raises TypeError: nothing catches it and the process ends
CompareRaises ==
    /\ stage = "crawl"
    /\ pc = "loop"
    /\ HasNext(idx)
    /\ \E url \in URLs : "TypeError" \in Decisions(url)
    /\ pc' = "raised"
    /\ UNCHANGED <<world, meta_chunk_size, idx, previous_meta, url_latest,
                   new_meta_records, cumulative_meta, next_id, chunk_counter,
                   history>>

\* a failed download that reserves the id it would have used
DownloadFailedReservingId ==
    /\ stage = "crawl"
    /\ pc = "loop"
    /\ HasNext(idx)
    /\ \E url \in URLs : "fetch" \in Decisions(url)
    /\ idx' = idx + 1
    /\ next_id' = next_id + 1
    /\ outcomes' = Append(outcomes, "errored")
    /\ Fail(1)
    /\ UNCHANGED <<world, pc, meta_chunk_size, previous_meta, url_latest,
                   new_meta_records, cumulative_meta, chunk_counter,
                   assigned, uploaded_urls, html_written, flushes,
                   listing_failed, load_failed, previous_run>>

\* lines 284-288: download_page returned None
DownloadFailed ==
    /\ stage = "crawl"
    /\ pc = "loop"
    /\ HasNext(idx)
    /\ \E url \in URLs : "fetch" \in Decisions(url)
    /\ idx' = idx + 1
    /\ outcomes' = Append(outcomes, "errored")
    /\ Fail(1)
    /\ UNCHANGED <<world, pc, meta_chunk_size, previous_meta, url_latest,
                   new_meta_records, cumulative_meta, next_id, chunk_counter,
                   assigned, uploaded_urls, html_written, flushes,
                   listing_failed, load_failed, previous_run>>

\* a download that takes its id from a counter the processes share: one more
\* than the last id any process has assigned
DownloadedWithSharedCounter ==
    /\ stage = "crawl"
    /\ pc = "loop"
    /\ HasNext(idx)
    /\ Len(assigned) < MaxFetches
    /\ LET id == IF assigned # <<>> /\ assigned[Len(assigned)] >= next_id
                 THEN assigned[Len(assigned)] + 1 ELSE next_id
       IN  /\ \E url \in URLs :
                /\ "fetch" \in Decisions(url)
                /\ LET new_record == NewRecord(id, now, url)
                   IN  /\ new_meta_records' = Append(new_meta_records, new_record)
                       /\ cumulative_meta' = Append(cumulative_meta, new_record)
           /\ html_written' = html_written \cup {HtmlFilename(id)}
           /\ assigned' = Append(assigned, id)
           /\ next_id' = id + 1
    /\ now' = now + SleepSecs
    /\ outcomes' = Append(outcomes, "fetched")
    /\ pc' = "flushcheck"
    /\ UNCHANGED <<stage, sitemap_xml, gcs_meta, local_meta_file, peer,
                   meta_chunk_size, idx, previous_meta, url_latest,
                   chunk_counter, uploaded_urls, flushes, listing_failed,
                   load_failed, faults, previous_run>>

\* lines 284-307: the page is downloaded, written as {next_id}.html and
\* recorded; the process then sleeps.  (The upload of the HTML file, lines
\* 294-296, changes nothing this program reads and its result is ignored.)
Downloaded ==
    /\ stage = "crawl"
    /\ pc = "loop"
    /\ HasNext(idx)
    /\ Len(assigned) < MaxFetches
    /\ \E url \in URLs :
        /\ "fetch" \in Decisions(url)
        /\ LET new_record == NewRecord(next_id, now, url)
           IN  /\ new_meta_records' = Append(new_meta_records, new_record)
               /\ cumulative_meta' = Append(cumulative_meta, new_record)
    /\ html_written' = html_written \cup {HtmlFilename(next_id)}
    /\ assigned' = Append(assigned, next_id)
    /\ next_id' = next_id + 1
    /\ now' = now + SleepSecs
    /\ outcomes' = Append(outcomes, "fetched")
    /\ pc' = "flushcheck"
    /\ UNCHANGED <<stage, sitemap_xml, gcs_meta, local_meta_file, peer,
                   meta_chunk_size, idx, previous_meta, url_latest,
                   chunk_counter, uploaded_urls, flushes, listing_failed,
                   load_failed, faults, previous_run>>

\* a flush that names the chunk before it counts it
FlushNumberedFromZero(uploaded) ==
    /\ chunk_counter' = chunk_counter + 1
    /\ gcs_meta' = IF uploaded
                   THEN PutBlob(gcs_meta, now, chunk_counter,
                                ChunkLines(new_meta_records))
                   ELSE gcs_meta
    /\ uploaded_urls' = IF uploaded /\ sitemap_xml.pinned
                        THEN uploaded_urls \cup
                             {new_meta_records[i].url :
                                 i \in 1..Len(new_meta_records)}
                        ELSE uploaded_urls
    /\ flushes' = Append(flushes, [num |-> chunk_counter, ts |-> now,
                                   lines |-> ChunkLines(new_meta_records),
                                   uploaded |-> uploaded])
    /\ new_meta_records' = <<>>
    /\ local_meta_file' = [exists |-> TRUE, lines |-> cumulative_meta]
    /\ Fail(IF uploaded THEN 0 ELSE 1)

\* a flush that keeps the buffered records when the upload of the chunk fails
FlushKeepingFailedUpload(uploaded) ==
    /\ chunk_counter' = chunk_counter + 1
    /\ gcs_meta' = IF uploaded
                   THEN PutBlob(gcs_meta, now, chunk_counter + 1,
                                ChunkLines(new_meta_records))
                   ELSE gcs_meta
    /\ uploaded_urls' = IF uploaded /\ sitemap_xml.pinned
                        THEN uploaded_urls \cup
                             {new_meta_records[i].url :
                                 i \in 1..Len(new_meta_records)}
                        ELSE uploaded_urls
    /\ flushes' = Append(flushes, [num |-> chunk_counter + 1, ts |-> now,
                                   lines |-> ChunkLines(new_meta_records),
                                   uploaded |-> uploaded])
    /\ new_meta_records' = IF uploaded THEN <<>> ELSE new_meta_records
    /\ local_meta_file' = [exists |-> TRUE, lines |-> cumulative_meta]
    /\ Fail(IF uploaded THEN 0 ELSE 1)

\* lines 310-321 and 325-334: the chunk is written and uploaded (or the
\* upload fails and upload_to_gcs returns False), the buffer is cleared and
\* LOCAL_META_FILE is rewritten from cumulative_meta
Flush(uploaded) ==
    /\ chunk_counter' = chunk_counter + 1
    /\ gcs_meta' = IF uploaded
                   THEN PutBlob(gcs_meta, now, chunk_counter + 1,
                                ChunkLines(new_meta_records))
                   ELSE gcs_meta
    /\ uploaded_urls' = IF uploaded /\ sitemap_xml.pinned
                        THEN uploaded_urls \cup
                             {new_meta_records[i].url :
                                 i \in 1..Len(new_meta_records)}
                        ELSE uploaded_urls
    /\ flushes' = Append(flushes, [num |-> chunk_counter + 1, ts |-> now,
                                   lines |-> ChunkLines(new_meta_records),
                                   uploaded |-> uploaded])
    /\ new_meta_records' = <<>>
    /\ local_meta_file' = [exists |-> TRUE, lines |-> cumulative_meta]
    /\ Fail(IF uploaded THEN 0 ELSE 1)

\* a flush test that lets the buffer grow one record past the chunk size
NoFlushUpToChunkSize ==
    /\ stage = "crawl"
    /\ pc = "flushcheck"
    /\ Len(new_meta_records) <= meta_chunk_size
    /\ pc' = "loop"
    /\ idx' = idx + 1
    /\ UNCHANGED <<world, meta_chunk_size, previous_meta, url_latest,
                   new_meta_records, cumulative_meta, next_id, chunk_counter,
                   history>>

\* line 309 after a download: the buffer is below the chunk size
NoFlush ==
    /\ stage = "crawl"
    /\ pc = "flushcheck"
    /\ Len(new_meta_records) < meta_chunk_size
    /\ pc' = "loop"
    /\ idx' = idx + 1
    /\ UNCHANGED <<world, meta_chunk_size, previous_meta, url_latest,
                   new_meta_records, cumulative_meta, next_id, chunk_counter,
                   history>>

\* a flush after every record, whatever the chunk size
ChunkFlushAtAnySize ==
    /\ stage = "crawl"
    /\ pc = "flushcheck"
    /\ Len(new_meta_records) >= 1
    /\ \E uploaded \in BOOLEAN : Flush(uploaded)
    /\ pc' = "loop"
    /\ idx' = idx + 1
    /\ UNCHANGED <<stage, now, sitemap_xml, peer, meta_chunk_size,
                   previous_meta, url_latest, cumulative_meta, next_id,
                   assigned, html_written, outcomes, listing_failed,
                   load_failed, previous_run>>

\* lines 309-321
ChunkFlush ==
    /\ stage = "crawl"
    /\ pc = "flushcheck"
    /\ Len(new_meta_records) >= meta_chunk_size
    /\ \E uploaded \in BOOLEAN : Flush(uploaded)
    /\ pc' = "loop"
    /\ idx' = idx + 1
    /\ UNCHANGED <<stage, now, sitemap_xml, peer, meta_chunk_size,
                   previous_meta, url_latest, cumulative_meta, next_id,
                   assigned, html_written, outcomes, listing_failed,
                   load_failed, previous_run>>

\* a final flush that does not look at the buffer
FinalFlushOfAnyBuffer ==
    /\ stage = "crawl"
    /\ pc = "loop"
    /\ AtEnd(idx)
    /\ \E uploaded \in BOOLEAN : Flush(uploaded)
    /\ pc' = "done"
    /\ UNCHANGED <<stage, now, sitemap_xml, peer, meta_chunk_size, idx,
                   previous_meta, url_latest, cumulative_meta, next_id,
                   assigned, html_written, outcomes, listing_failed,
                   load_failed, previous_run>>

\* lines 323-334 with records left in the buffer
FinalFlush ==
    /\ stage = "crawl"
    /\ pc = "loop"
    /\ AtEnd(idx)
    /\ new_meta_records # <<>>
    /\ \E uploaded \in BOOLEAN : Flush(uploaded)
    /\ pc' = "done"
    /\ UNCHANGED <<stage, now, sitemap_xml, peer, meta_chunk_size, idx,
                   previous_meta, url_latest, cumulative_meta, next_id,
                   assigned, html_written, outcomes, listing_failed,
                   load_failed, previous_run>>

\* line 324 with an empty buffer: process_updates returns
Finish ==
    /\ stage = "crawl"
    /\ pc = "loop"
    /\ AtEnd(idx)
    /\ new_meta_records = <<>>
    /\ pc' = "done"
    /\ UNCHANGED <<world, meta_chunk_size, idx, previous_meta, url_latest,
                   new_meta_records, cumulative_meta, next_id, chunk_counter,
                   history>>

\* the process is terminated between two steps; what it held in memory is
\* gone
Kill ==
    /\ pc \in Running
    /\ pc' = "killed"
    /\ Fail(1)
    /\ meta_chunk_size' = 1
    /\ idx' = 0
    /\ previous_meta' = <<>>
    /\ url_latest' = EmptyDict
    /\ new_meta_records' = <<>>
    /\ cumulative_meta' = <<>>
    /\ next_id' = 1
    /\ chunk_counter' = 0
    /\ outcomes' = <<>>
    /\ flushes' = <<>>
    /\ html_written' = {}
    /\ listing_failed' = FALSE
    /\ load_failed' = FALSE
    /\ UNCHANGED <<world, assigned, uploaded_urls, previous_run>>

Crawl ==
    \/ StartRun
    \/ StartRunLoadFails
    \/ SkipItem
    \/ CompareRaises
    \/ DownloadFailed
    \/ Downloaded
    \/ NoFlush
    \/ ChunkFlush
    \/ FinalFlush
    \/ Finish

\* ------------------------------------------------------------- extraction
\* extract.py, lines 179-183
ExtractRecord(id, original_html_id, t) ==
    [id |-> id, original_html_id |-> original_html_id, processed_at |-> NowIso(t)]

\* extract.py save_meta_chunk, lines 121-127
ExtractChunkLines(records) ==
    [i \in 1..Len(records) |->
        [id |-> records[i].id,
         original_html_id |-> records[i].original_html_id,
         processed_at |-> records[i].processed_at]]

\* process_extractions, lines 148-154
NextExtractionId(records) ==
    IF records = <<>> THEN 1
    ELSE IF \A i \in 1..Len(records) : "id" \in DOMAIN records[i]
         THEN SetMax({records[i].id : i \in 1..Len(records)}) + 1
         ELSE 1

\* process_extractions, lines 141-155, on the instance of the last run or on
\* a fresh one; `numeric` tells whether every *.html name in input_dir is a
\* number: if not, the sort key of line 143 raises ValueError
BeginExtraction(size, fresh, numeric) ==
    LET file == IF fresh THEN NoMetaFile ELSE local_meta_file
        records == IF numeric THEN ReadMetaFile(file) ELSE <<>>
    IN  /\ stage = "extract"
        /\ pc \in Terminal
        /\ pc' = IF numeric THEN "loop" ELSE "raised"
        /\ meta_chunk_size' = size
        /\ listing_failed' = ~numeric
        /\ load_failed' = FALSE
        /\ local_meta_file' = file
        /\ previous_meta' = records
        /\ url_latest' = EmptyDict
        /\ new_meta_records' = <<>>
        /\ cumulative_meta' = records
        /\ next_id' = NextExtractionId(records)
        /\ chunk_counter' = 0
        /\ idx' = 0
        /\ outcomes' = <<>>
        /\ flushes' = <<>>
        /\ html_written' = {}
        /\ Fail(IF numeric THEN 0 ELSE 1)
        /\ UNCHANGED <<stage, now, sitemap_xml, gcs_meta, peer, assigned,
                       uploaded_urls, previous_run>>

StartExtraction ==
    \E size \in 1..MaxChunkSize, fresh \in BOOLEAN :
        BeginExtraction(size, fresh, TRUE)

SortRaises ==
    \E size \in 1..MaxChunkSize, fresh \in BOOLEAN :
        BeginExtraction(size, fresh, FALSE)

\* lines 156-167: extract_body found no <div id="body"> and returned ""
NoBody ==
    /\ stage = "extract"
    /\ pc = "loop"
    /\ HasNext(idx)
    /\ idx' = idx + 1
    /\ outcomes' = Append(outcomes, "no_body")
    /\ Fail(1)
    /\ UNCHANGED <<world, pc, meta_chunk_size, previous_meta, url_latest,
                   new_meta_records, cumulative_meta, next_id, chunk_counter,
                   assigned, uploaded_urls, html_written, flushes,
                   listing_failed, load_failed, previous_run>>

\* lines 156-186: the body of {idx + 1}.html is written as
\* {next_extraction_id}.html and recorded
Extracted ==
    /\ stage = "extract"
    /\ pc = "loop"
    /\ HasNext(idx)
    /\ Len(assigned) < MaxFetches
    /\ LET meta_record == ExtractRecord(next_id, idx + 1, now)
       IN  /\ new_meta_records' = Append(new_meta_records, meta_record)
           /\ cumulative_meta' = Append(cumulative_meta, meta_record)
    /\ html_written' = html_written \cup {HtmlFilename(next_id)}
    /\ assigned' = Append(assigned, next_id)
    /\ next_id' = next_id + 1
    /\ outcomes' = Append(outcomes, "extracted")
    /\ pc' = "flushcheck"
    /\ UNCHANGED <<world, meta_chunk_size, idx, previous_meta, url_latest,
                   chunk_counter, uploaded_urls, flushes, listing_failed,
                   load_failed, faults, previous_run>>

\* lines 188-196 and 200-208: as in the crawler, the result of upload_to_gcs
\* is ignored
ExtractFlush(uploaded) ==
    /\ chunk_counter' = chunk_counter + 1
    /\ gcs_meta' = IF uploaded
                   THEN PutBlob(gcs_meta, now, chunk_counter + 1,
                                ExtractChunkLines(new_meta_records))
                   ELSE gcs_meta
    /\ flushes' = Append(flushes, [num |-> chunk_counter + 1, ts |-> now,
                                   lines |-> ExtractChunkLines(new_meta_records),
                                   uploaded |-> uploaded])
    /\ new_meta_records' = <<>>
    /\ local_meta_file' = [exists |-> TRUE, lines |-> cumulative_meta]
    /\ Fail(IF uploaded THEN 0 ELSE 1)

\* line 187: the buffer is below the chunk size
ExtractNoFlush ==
    /\ stage = "extract"
    /\ pc = "flushcheck"
    /\ Len(new_meta_records) < meta_chunk_size
    /\ pc' = "loop"
    /\ idx' = idx + 1
    /\ UNCHANGED <<world, meta_chunk_size, previous_meta, url_latest,
                   new_meta_records, cumulative_meta, next_id, chunk_counter,
                   history>>

\* lines 187-198
ExtractChunkFlush ==
    /\ stage = "extract"
    /\ pc = "flushcheck"
    /\ Len(new_meta_records) >= meta_chunk_size
    /\ \E uploaded \in BOOLEAN : ExtractFlush(uploaded)
    /\ now' = now + ExtractSleepSecs
    /\ pc' = "loop"
    /\ idx' = idx + 1
    /\ UNCHANGED <<stage, sitemap_xml, peer, meta_chunk_size, previous_meta,
                   url_latest, cumulative_meta, next_id, assigned,
                   uploaded_urls, html_written, outcomes, listing_failed,
                   load_failed, previous_run>>

\* lines 199-209
ExtractFinalFlush ==
    /\ stage = "extract"
    /\ pc = "loop"
    /\ AtEnd(idx)
    /\ new_meta_records # <<>>
    /\ \E uploaded \in BOOLEAN : ExtractFlush(uploaded)
    /\ pc' = "done"
    /\ UNCHANGED <<stage, now, sitemap_xml, peer, meta_chunk_size, idx,
                   previous_meta, url_latest, cumulative_meta, next_id,
                   assigned, uploaded_urls, html_written, outcomes,
                   listing_failed, load_failed, previous_run>>

\* line 199 with an empty buffer: process_extractions returns
ExtractFinish ==
    /\ stage = "extract"
    /\ pc = "loop"
    /\ AtEnd(idx)
    /\ new_meta_records = <<>>
    /\ pc' = "done"
    /\ UNCHANGED <<world, meta_chunk_size, idx, previous_meta, url_latest,
                   new_meta_records, cumulative_meta, next_id, chunk_counter,
                   history>>

Extract ==
    \/ StartExtraction
    \/ SortRaises
    \/ NoBody
    \/ Extracted
    \/ ExtractNoFlush
    \/ ExtractChunkFlush
    \/ ExtractFinalFlush
    \/ ExtractFinish

\* ------------------------------------------------------------- specifications
\* Complete runs of one job, one after the other: each process runs until it
\* returns or raises.
Next == Crawl \/ Extract

Spec == Init /\ [][Next]_vars

\* ------------------------------------------------------------- pinned sitemap
\* The specification in which the site serves the same listing to every
\* run of the crawler, so that the entry a step reads is part of the state,
\* and in which a process may be killed.
PinnedLastMods ==
    {None, Malformed, IsoString(0, "+00:00"), IsoString(1, "+00:00"),
     IsoString(1, "Z"), IsoString(1, "")}

Entry(url, lastmod) == [url |-> url, lastmod |-> lastmod]
Pinned(entries) == [pinned |-> TRUE, entries |-> entries]

\* one entry, or two: the second names the same location again, or another
\* location with the same lastmod or with none
SecondEntries(lastmod) ==
    {Entry("/a", lastmod), Entry("/b", lastmod), Entry("/b", None)}

PinnedSitemaps ==
    {Pinned(<<Entry("/a", lastmod)>>) : lastmod \in PinnedLastMods}
    \cup
    UNION {{Pinned(<<Entry("/a", lastmod), second>>) :
                second \in SecondEntries(lastmod)} :
            lastmod \in PinnedLastMods}

InitPinned ==
    /\ stage = "crawl"
    /\ sitemap_xml \in PinnedSitemaps
    /\ Empty

NextPinned == Crawl \/ Kill

SpecPinned == InitPinned /\ [][NextPinned]_vars

TypeOK ==
    /\ now \in 0..MaxClock
    /\ pc \in Terminal \cup Running
    /\ idx \in 0..MaxList
    /\ next_id \in 1..(MaxFetches + 1)
    /\ faults \in 0..MaxFaults
    /\ previous_run \in Terminal \cup {"none", "clean", "unclean"}

\* ------------------------------------------------------------- two processes
\* The specification of two crawler processes on one machine, against the
\* same bucket, each started once: nothing in main (lines 366-372) or in
\* process_updates takes a lock or looks for another process.  The steps of
\* process_updates are those above, taken by the process that is scheduled;
\* Switch schedules the other one.  A page download with its sleep is one
\* step, so two sleeps never overlap: the clock readings are those of some
\* real interleaving, not of all.
Switch ==
    /\ peer' = [pc |-> pc, meta_chunk_size |-> meta_chunk_size, idx |-> idx,
                previous_meta |-> previous_meta, url_latest |-> url_latest,
                new_meta_records |-> new_meta_records,
                cumulative_meta |-> cumulative_meta, next_id |-> next_id,
                chunk_counter |-> chunk_counter, outcomes |-> outcomes,
                flushes |-> flushes, html_written |-> html_written,
                listing_failed |-> listing_failed, load_failed |-> load_failed]
    /\ pc' = peer.pc
    /\ meta_chunk_size' = peer.meta_chunk_size
    /\ idx' = peer.idx
    /\ previous_meta' = peer.previous_meta
    /\ url_latest' = peer.url_latest
    /\ new_meta_records' = peer.new_meta_records
    /\ cumulative_meta' = peer.cumulative_meta
    /\ next_id' = peer.next_id
    /\ chunk_counter' = peer.chunk_counter
    /\ outcomes' = peer.outcomes
    /\ flushes' = peer.flushes
    /\ html_written' = peer.html_written
    /\ listing_failed' = peer.listing_failed
    /\ load_failed' = peer.load_failed
    /\ UNCHANGED <<stage, now, sitemap_xml, gcs_meta, local_meta_file,
                   assigned, uploaded_urls, faults, previous_run>>

\* the scheduled process has not run yet and starts
StartOnce ==
    /\ pc = "idle"
    /\ StartRun

StartOnceLoadFails ==
    /\ pc = "idle"
    /\ StartRunLoadFails

\* the record of the page /a downloaded by an earlier run at instant 0
FirstRecord == NewRecord(1, 0, "/a")

\* What the two processes find: nothing, or what one earlier run left after
\* it downloaded one page and flushed it, the upload having succeeded or
\* failed.
Snapshots ==
    {[gcs_meta |-> {}, local_meta_file |-> NoMetaFile, now |-> 0,
      assigned |-> <<>>, faults |-> 0],
     [gcs_meta |-> PutBlob({}, SleepSecs, 1, ChunkLines(<<FirstRecord>>)),
      local_meta_file |-> [exists |-> TRUE, lines |-> <<FirstRecord>>],
      now |-> SleepSecs, assigned |-> <<1>>, faults |-> 0],
     [gcs_meta |-> {},
      local_meta_file |-> [exists |-> TRUE, lines |-> <<FirstRecord>>],
      now |-> SleepSecs, assigned |-> <<1>>, faults |-> 1]}

InitConcurrent ==
    /\ stage = "crawl"
    /\ sitemap_xml \in PinnedSitemaps
    /\ \E w \in Snapshots :
        /\ gcs_meta = w.gcs_meta
        /\ local_meta_file = w.local_meta_file
        /\ now = w.now
        /\ assigned = w.assigned
        /\ faults = w.faults
    /\ peer = NoPeer
    /\ pc = "idle"
    /\ uploaded_urls = {}
    /\ previous_run = "none"
    /\ NoProcess

NextConcurrent ==
    \/ StartOnce
    \/ StartOnceLoadFails
    \/ SkipItem
    \/ CompareRaises
    \/ DownloadFailed
    \/ Downloaded
    \/ NoFlush
    \/ ChunkFlush
    \/ FinalFlush
    \/ Finish
    \/ Switch

SpecConcurrent == InitConcurrent /\ [][NextConcurrent]_vars

\* ------------------------------------------------------------- properties
Last(s) == s[Len(s)]

\* the records this run has created: cumulative_meta past what was loaded
ThisRun == SubSeq(cumulative_meta, Len(previous_meta) + 1, Len(cumulative_meta))

\* the step finishes one entry of the listing (one file of input_dir)
ItemStep == Len(outcomes') = Len(outcomes) + 1

\* the step flushes a chunk
FlushStep == Len(flushes') = Len(flushes) + 1

\* the step downloads a page and records it
FetchStep == Len(assigned') = Len(assigned) + 1

\* pinned sitemap: the entry the loop of line 264 is at
CurrentEntry == sitemap_xml.entries[idx + 1]

AtEntry ==
    /\ stage = "crawl"
    /\ sitemap_xml.pinned
    /\ pc = "loop"
    /\ HasNext(idx)

\* pinned sitemap: every lastmod is the aware instant 0, which no fetched_at
\* precedes
OldListing ==
    \A i \in 1..Len(sitemap_xml.entries) :
        sitemap_xml.entries[i].lastmod = IsoString(0, "+00:00")

\* the lines of the chunks of this run whose upload succeeded, in order
RECURSIVE UploadedLines(_)
UploadedLines(fs) ==
    IF fs = <<>> THEN <<>>
    ELSE (IF Head(fs).uploaded THEN Head(fs).lines ELSE <<>>)
             \o UploadedLines(Tail(fs))

\* the chunk lines of the records created in this run
CreatedLines ==
    IF stage = "crawl" THEN ChunkLines(ThisRun) ELSE ExtractChunkLines(ThisRun)

\* the ids held by the chunks in the bucket
PersistedIds == UNION {{b.lines[i].id : i \in 1..Len(b.lines)} : b \in gcs_meta}

\* C1: after a crawl run that completed cleanly (listing and ledger read,
\* every page downloaded, every chunk uploaded), a run served the same
\* listing, whose every lastmod is no later than any fetch, creates no
\* record, downloads nothing and flushes nothing.
C1_RerunCreatesNothing ==
    (/\ sitemap_xml.pinned
     /\ previous_run = "clean"
     /\ ~load_failed
     /\ ~listing_failed
     /\ OldListing)
        => /\ ThisRun = <<>>
           /\ flushes = <<>>
           /\ \A i \in 1..Len(outcomes) : outcomes[i] = "skipped"

\* C2: over any sequence of complete crawl runs the ids assigned to records
\* are 1, 2, ..., N in this order: no gap and no repeat.
C2_IdsAreOneToN ==
    stage = "crawl" => \A i \in 1..Len(assigned) : assigned[i] = i

\* C3: when a run has returned, the records in the chunks it uploaded are
\* exactly the records it created, each once and in order.  Stated for the
\* runs whose last flush was uploaded: there every record would have reached
\* the bucket had the records of a failed flush stayed queued.
C3_ChunkCompleteness ==
    (/\ pc = "done"
     /\ flushes # <<>>
     /\ Last(flushes).uploaded)
        => UploadedLines(flushes) = CreatedLines

\* the decision of lines 275-282 for a location url_latest knows and whose
\* sitemap entry has no lastmod
KnownNoTimestamp ==
    /\ AtEntry
    /\ CurrentEntry.url \in DOMAIN url_latest
    /\ CurrentEntry.lastmod = None

\* C4 as stated: a known location whose entry has no lastmod is skipped: no
\* download, no new record.
C4_KnownUndatedIsSkipped ==
    [][(KnownNoTimestamp /\ ItemStep)
          => /\ Last(outcomes') = "skipped"
             /\ cumulative_meta' = cumulative_meta]_vars

\* C4: a known location whose entry has no lastmod is fetched: the download
\* is attempted, and when it succeeds a new record with the next id is
\* created for the location.
C4_KnownUndatedIsFetched ==
    [][(KnownNoTimestamp /\ ItemStep)
          => /\ Last(outcomes') \in {"fetched", "errored"}
             /\ Last(outcomes') = "fetched" =>
                    cumulative_meta' =
                        Append(cumulative_meta,
                               NewRecord(next_id, now, CurrentEntry.url))
             /\ Last(outcomes') = "errored" =>
                    cumulative_meta' = cumulative_meta]_vars

\* a page has just been downloaded for a known location whose entry has no
\* lastmod
C4_Witness ==
    /\ stage = "crawl"
    /\ sitemap_xml.pinned
    /\ pc = "flushcheck"
    /\ CurrentEntry.lastmod = None
    /\ CurrentEntry.url \in DOMAIN url_latest
    /\ Last(cumulative_meta).url = CurrentEntry.url

\* C5: for a known location with fetched_at T whose entry has a parsable
\* lastmod L, the entry is dealt with and the page is fetched exactly when
\* L > T; L = T and L < T give skip.
C5_StrictComparison ==
    [][(/\ AtEntry
        /\ CurrentEntry.url \in DOMAIN url_latest
        /\ SitemapLastmod(CurrentEntry.lastmod) # None
        /\ ItemStep \/ pc' = "raised")
          => /\ ItemStep
             /\ IF SitemapLastmod(CurrentEntry.lastmod).t
                       > url_latest[CurrentEntry.url].t
                THEN Last(outcomes') \in {"fetched", "errored"}
                ELSE Last(outcomes') = "skipped"]_vars

\* within a run the ids of the records created are consecutive
ConsecutiveIds ==
    \A i \in 1..(Len(ThisRun) - 1) : ThisRun[i + 1].id = ThisRun[i].id + 1

\* C6: a failed download (crawl) or a page without body (extraction) creates
\* no record, writes no file, leaves next_id as it was, and the loop goes on
\* to the next item; the ids of the records of a run are consecutive.
C6_AdapterFailureConsumesNoId ==
    /\ []ConsecutiveIds
    /\ [][(ItemStep /\ Last(outcomes') \in {"errored", "no_body"})
             => /\ next_id' = next_id
                /\ assigned' = assigned
                /\ cumulative_meta' = cumulative_meta
                /\ new_meta_records' = new_meta_records
                /\ html_written' = html_written
                /\ pc' = "loop"
                /\ idx' = idx + 1]_vars

\* an item failed between two items that were recorded, with consecutive ids
C6_Witness ==
    /\ Len(ThisRun) >= 2
    /\ \E i \in 1..(Len(outcomes) - 2) :
        /\ outcomes[i] \in {"fetched", "extracted"}
        /\ outcomes[i + 1] \in {"errored", "no_body"}
        /\ outcomes[i + 2] \in {"fetched", "extracted"}

\* C7: when the upload of a chunk fails the buffered records are kept for
\* the next flush.
C7_FailedFlushKeepsBuffer ==
    [][(FlushStep /\ ~Last(flushes').uploaded)
          => new_meta_records' = new_meta_records]_vars

\* C8: in the run that follows a killed one, served the same listing, no
\* page is downloaded for a location that a chunk uploaded by an earlier
\* run records, and no id is assigned that a chunk in the bucket holds.
C8_CrashRecovery ==
    [][(/\ sitemap_xml.pinned
        /\ previous_run = "killed"
        /\ ~load_failed
        /\ OldListing
        /\ FetchStep)
          => LET r == Last(cumulative_meta')
             IN  /\ \/ r.url \notin uploaded_urls
                    \/ \E i \in 1..Len(ThisRun) : ThisRun[i].url = r.url
                 /\ r.id \notin PersistedIds]_vars

\* C9: a run whose ledger load failed downloads no page, assigns no id,
\* creates no record and flushes no chunk.
C9_LoadFailureIsFatal ==
    (stage = "crawl" /\ load_failed)
        => /\ outcomes = <<>>
           /\ cumulative_meta = <<>>
           /\ html_written = {}
           /\ flushes = <<>>

\* C10: a crawl run whose listing failed downloads nothing, creates no
\* record, flushes no chunk, and does not end as a successful run does.
C10_ListingFailureIsFatal ==
    (stage = "crawl" /\ listing_failed)
        => /\ outcomes = <<>>
           /\ ThisRun = <<>>
           /\ flushes = <<>>
           /\ pc # "done"

\* C11: for a known location whose entry has a lastmod without timezone,
\* the comparison does not raise and the entry is fetched or skipped as it
\* is for the same instant written with the offset +00:00.
C11_NaiveLastmodIsUtc ==
    [][(/\ AtEntry
        /\ CurrentEntry.url \in DOMAIN url_latest
        /\ CurrentEntry.lastmod.kind = "iso"
        /\ CurrentEntry.lastmod.tz = ""
        /\ ItemStep \/ pc' = "raised")
          => /\ pc' # "raised"
             /\ ItemStep
             /\ IF Decide(CurrentEntry.url,
                          IsoString(CurrentEntry.lastmod.t, "+00:00"),
                          url_latest) = "fetch"
                THEN Last(outcomes') \in {"fetched", "errored"}
                ELSE Last(outcomes') = "skipped"]_vars

\* the loop of line 264 is at an entry whose lastmod cannot be parsed
AtMalformed ==
    /\ AtEntry
    /\ CurrentEntry.lastmod = Malformed

\* C12 as stated: an entry whose lastmod cannot be parsed is skipped when
\* its location is known and fetched otherwise; the run does not raise.
C12_MalformedKnownIsSkipped ==
    [][(AtMalformed /\ (ItemStep \/ pc' = "raised"))
          => /\ ItemStep
             /\ IF CurrentEntry.url \in DOMAIN url_latest
                THEN Last(outcomes') = "skipped"
                ELSE Last(outcomes') \in {"fetched", "errored"}]_vars

\* C12: an entry whose lastmod cannot be parsed is dealt with as one without
\* lastmod: the download is attempted whether or not its location is known,
\* and the run does not raise.
C12_MalformedIsFetched ==
    [][(AtMalformed /\ (ItemStep \/ pc' = "raised"))
          => /\ ItemStep
             /\ Last(outcomes') \in {"fetched", "errored"}
             /\ SitemapLastmod(CurrentEntry.lastmod) = SitemapLastmod(None)]_vars

\* a page has just been downloaded for a known location whose entry has a
\* lastmod that cannot be parsed
C12_Witness ==
    /\ stage = "crawl"
    /\ sitemap_xml.pinned
    /\ pc = "flushcheck"
    /\ CurrentEntry.lastmod = Malformed
    /\ CurrentEntry.url \in DOMAIN url_latest
    /\ Last(cumulative_meta).url = CurrentEntry.url

\* C13: every chunk a run flushes holds at least one record and at most
\* meta_chunk_size records, and every chunk but the last one flushed holds
\* exactly meta_chunk_size records.
C13_ChunkSizeBound ==
    \A k \in 1..Len(flushes) :
        /\ Len(flushes[k].lines) >= 1
        /\ Len(flushes[k].lines) <= meta_chunk_size
        /\ k < Len(flushes) => Len(flushes[k].lines) = meta_chunk_size

\* a run has returned after a full chunk and a final, shorter one
C13_Witness ==
    /\ pc = "done"
    /\ Len(flushes) = 2
    /\ Len(flushes[1].lines) = meta_chunk_size
    /\ Len(flushes[2].lines) < meta_chunk_size

\* C14: the k-th flush of a run is numbered k, whether or not its upload
\* succeeds: the numbers start at 1 and go up by one per flush.
C14_ChunkNumbers ==
    /\ chunk_counter = Len(flushes)
    /\ \A k \in 1..Len(flushes) : flushes[k].num = k

\* a run has flushed twice and the upload of its first chunk had failed
C14_Witness ==
    /\ Len(flushes) = 2
    /\ ~flushes[1].uploaded
    /\ flushes[2].uploaded

\* a crawl run that has not flushed yet: the bucket holds what earlier runs
\* uploaded
BeforeFirstFlush ==
    /\ stage = "crawl"
    /\ pc \in Running
    /\ flushes = <<>>

\* C15: the ledger a run has loaded holds every record of every chunk that
\* earlier runs uploaded, not only those of the chunk named last.
C15_LedgerHoldsEveryChunk ==
    (BeforeFirstFlush /\ ~load_failed)
        => \A b \in gcs_meta : \A i \in 1..Len(b.lines) :
               \E j \in 1..Len(previous_meta) :
                   OutRecord(previous_meta[j]) = b.lines[i]

\* C16: the first id a crawl run assigns is 1 when nothing was persisted
\* before (no chunk in the bucket, no local meta file), and otherwise one
\* more than the largest id held by the chunks in the bucket.
C16_SequencerSeed ==
    (BeforeFirstFlush /\ ThisRun = <<>>)
        => /\ (gcs_meta = {} /\ ~local_meta_file.exists) => next_id = 1
           /\ PersistedIds # {} => next_id = SetMax(PersistedIds) + 1

C18_NonNumericNameIsSkipped ==
    (stage = "extract" /\ listing_failed) => pc \in Running \cup {"done"}

\* C19: an extraction run creates no record for a staged file for which the
\* ledger it has loaded already holds a record.
C19_ExtractionRerunCreatesNothing ==
    [][(stage = "extract" /\ FetchStep)
          => \A j \in 1..Len(previous_meta) :
                 previous_meta[j].original_html_id
                     # Last(cumulative_meta').original_html_id]_vars

\* the number of entries of this run dealt with in the given way
Count(outcome) ==
    Cardinality({i \in 1..Len(outcomes) : outcomes[i] = outcome})

\* the number of entries parse_sitemap returned to this run
Listed == IF listing_failed THEN 0 ELSE Len(sitemap_xml.entries)

\* C20: when a crawl run has returned, every listed entry was fetched,
\* skipped or errored, and only one of these; and after a clean run, a run
\* over the same listing, whose every lastmod is no later than any fetch,
\* has skipped every entry.
C20_RunSummary ==
    (/\ stage = "crawl"
     /\ sitemap_xml.pinned
     /\ pc = "done")
        => /\ Listed = Count("fetched") + Count("skipped") + Count("errored")
           /\ (previous_run = "clean" /\ ~load_failed /\ ~listing_failed
                   /\ OldListing)
                  => /\ Count("skipped") = Listed
                     /\ Count("fetched") = 0

\* the lines of every chunk this run has flushed, in order
RECURSIVE FlushedLines(_)
FlushedLines(fs) ==
    IF fs = <<>> THEN <<>> ELSE Head(fs).lines \o FlushedLines(Tail(fs))

\* the chunk lines the buffered records would be written as
BufferLines ==
    IF stage = "crawl" THEN ChunkLines(new_meta_records)
    ELSE ExtractChunkLines(new_meta_records)

\* C22: between two items of a run the records created and not yet flushed
\* are exactly the buffered ones, and there are fewer of them than
\* meta_chunk_size.
C22_BoundedUnflushedWork ==
    pc = "loop"
        => /\ Len(new_meta_records) < meta_chunk_size
           /\ FlushedLines(flushes) \o BufferLines = CreatedLines

\* between two items, after a flush, the buffer holds one record less than
\* the chunk size
C22_Witness ==
    /\ pc = "loop"
    /\ flushes # <<>>
    /\ new_meta_records # <<>>
    /\ Len(new_meta_records) = meta_chunk_size - 1

\* C23: dealing with an entry that is skipped leaves next_id, the buffer,
\* the cumulative ledger, the chunk counter and the chunks flushed, locally
\* and in the bucket, as they were; no file is written and no id assigned.
C23_SkipChangesNothing ==
    [][(ItemStep /\ Last(outcomes') = "skipped")
          => UNCHANGED <<next_id, new_meta_records, cumulative_meta,
                         chunk_counter, flushes, gcs_meta, local_meta_file,
                         html_written, assigned>>]_vars

\* an entry has just been skipped while a record waits in the buffer
C23_Witness ==
    /\ stage = "crawl"
    /\ pc = "loop"
    /\ outcomes # <<>>
    /\ Last(outcomes) = "skipped"
    /\ new_meta_records # <<>>

\* no entry of this run led to a record
NothingCreated ==
    \A i \in 1..Len(outcomes) : outcomes[i] \notin {"fetched", "extracted"}

\* C24: a flush is issued only with a non-empty buffer; a run that has
\* returned without creating a record (empty listing, every entry skipped
\* or failed) has flushed no chunk and its chunk counter is 0.
C24_NoEmptyFlush ==
    /\ [][FlushStep => /\ new_meta_records # <<>>
                       /\ Last(flushes').lines # <<>>]_vars
    /\ []((pc = "done" /\ NothingCreated)
             => /\ flushes = <<>>
                /\ chunk_counter = 0)

\* a crawl run has returned after skipping one entry and failing to download
\* another, with no chunk flushed
C24_Witness ==
    /\ stage = "crawl"
    /\ pc = "done"
    /\ flushes = <<>>
    /\ chunk_counter = 0
    /\ \E i \in 1..Len(outcomes) : outcomes[i] = "skipped"
    /\ \E i \in 1..Len(outcomes) : outcomes[i] = "errored"

\* ceil(j / c)
ChunkOf(j, c) == (j + c - 1) \div c

\* C25: in a crawl run that starts with next_id = s and chunk size c, the
\* j-th page downloaded, in the order of the listing, gets the id s + j - 1
\* and is written in the chunk numbered ceil(j / c), at the place its order
\* gives it; a run that has returned has written every record.
C25_IdsAndChunksInListingOrder ==
    /\ [](stage = "crawl" =>
            LET s == InitialNextId(previous_meta)
                c == meta_chunk_size
            IN  /\ \A j \in 1..Len(ThisRun) : ThisRun[j].id = s + j - 1
                /\ Len(FlushedLines(flushes)) <= Len(ThisRun)
                /\ pc = "done" => Len(FlushedLines(flushes)) = Len(ThisRun)
                /\ \A j \in 1..Len(FlushedLines(flushes)) :
                       LET k == ChunkOf(j, c)
                       IN  /\ k <= Len(flushes)
                           /\ flushes[k].num = k
                           /\ j - (k - 1) * c \in 1..Len(flushes[k].lines)
                           /\ flushes[k].lines[j - (k - 1) * c]
                                  = OutRecord(ThisRun[j]))
    /\ [][(stage = "crawl" /\ FetchStep)
             => /\ ItemStep
                /\ Len(cumulative_meta') = Len(cumulative_meta) + 1
                /\ Last(cumulative_meta').id = next_id
                /\ SubSeq(cumulative_meta', 1, Len(cumulative_meta))
                       = cumulative_meta]_vars

\* three pages seen for the first time, chunk size 2, empty ledger: chunk 1
\* holds the ids 1 and 2, chunk 2 the id 3
C25_Witness ==
    /\ stage = "crawl"
    /\ pc = "done"
    /\ previous_meta = <<>>
    /\ meta_chunk_size = 2
    /\ outcomes = <<"fetched", "fetched", "fetched">>
    /\ Len(flushes) = 2
    /\ flushes[1].num = 1
    /\ flushes[2].num = 2
    /\ [i \in 1..2 |-> flushes[1].lines[i].id] = <<1, 2>>
    /\ [i \in 1..1 |-> flushes[2].lines[i].id] = <<3>>

\* the places of the ledger records that name the location u
RecordsOf(records, u) ==
    {i \in 1..Len(records) : "url" \in DOMAIN records[i] /\ records[i].url = u}

\* for every location the ledger names, the latest of the instants at which
\* its records were fetched
LatestFetch(records) ==
    [u \in {records[i].url :
               i \in {i \in 1..Len(records) : "url" \in DOMAIN records[i]}} |->
        DateTime(SetMax({records[i].fetched_at.t : i \in RecordsOf(records, u)}),
                 TRUE)]

Permuted(s, p) == [i \in 1..Len(s) |-> s[p[i]]]

\* C26: the lookup of a crawl run holds, for every location the loaded
\* ledger names, the latest fetched_at among its records, in whatever order
\* the records are loaded; and an entry for a known location is fetched,
\* skipped (or the comparison raises) as the comparison of its lastmod with
\* that latest fetched_at says.
C26_LatestRecordWins ==
    /\ []((stage = "crawl" /\ pc \in Running)
            => /\ url_latest = LatestFetch(previous_meta)
               /\ (pc = "loop" /\ outcomes = <<>>)
                      => \A p \in Permutations(1..Len(previous_meta)) :
                             BuildUrlLatest(Permuted(previous_meta, p), EmptyDict)
                                 = url_latest)
    /\ [][(/\ AtEntry
           /\ CurrentEntry.url \in DOMAIN url_latest
           /\ ItemStep \/ pc' = "raised")
             => LET d == Decide(CurrentEntry.url, CurrentEntry.lastmod,
                                LatestFetch(previous_meta))
                IN  /\ d = "fetch" =>
                           ItemStep /\ Last(outcomes') \in {"fetched", "errored"}
                    /\ d = "skip" => ItemStep /\ Last(outcomes') = "skipped"
                    /\ d = "TypeError" => pc' = "raised"]_vars

\* the ledger holds two records of one location, fetched at different
\* instants, and an entry for it whose lastmod lies between the two has just
\* been skipped
C26_Witness ==
    /\ stage = "crawl"
    /\ sitemap_xml.pinned
    /\ pc = "loop"
    /\ idx >= 1
    /\ Last(outcomes) = "skipped"
    /\ LET e == sitemap_xml.entries[idx]
       IN  /\ e.lastmod.kind = "iso"
           /\ \E i, j \in RecordsOf(previous_meta, e.url) :
                  /\ previous_meta[i].fetched_at.t < e.lastmod.t
                  /\ e.lastmod.t <= previous_meta[j].fetched_at.t

\* C27: in one crawl run, a location listed twice with the same lastmod,
\* which no fetch precedes, is downloaded and recorded at most once: the
\* second entry finds the record the first one created.
C27_DuplicateLocationFetchedOnce ==
    (/\ stage = "crawl"
     /\ sitemap_xml.pinned
     /\ OldListing)
        => \A i, j \in 1..Len(outcomes) :
               (/\ i < j
                /\ sitemap_xml.entries[i] = sitemap_xml.entries[j])
                   => ~(outcomes[i] = "fetched" /\ outcomes[j] = "fetched")

\* C28: a crawl run, whatever its listing and whichever downloads fail, does
\* not raise, deals with the entries one by one in the order of the listing
\* and, when it has returned, has dealt with every entry once.
C28_PerItemErrorsNeverAbort ==
    /\ [](stage = "crawl" => pc # "raised")
    /\ []((stage = "crawl" /\ sitemap_xml.pinned)
             => /\ Len(outcomes) \in {idx, idx + 1}
                /\ Len(outcomes) <= Listed
                /\ pc = "done" => Len(outcomes) = Listed)

\* the records of this run that are buffered or were written in a chunk
BufferedOrFlushed ==
    {BufferLines[i] : i \in 1..Len(BufferLines)}
        \cup {FlushedLines(flushes)[i] : i \in 1..Len(FlushedLines(flushes))}

\* C29 as stated: every record that is buffered or was written in a chunk
\* has the field filename, equal to "<id>.html" for its own id, and the file
\* of that name was written in this run before the chunk was flushed.
C29_EveryRecordNamesItsFile ==
    /\ [](\A r \in BufferedOrFlushed :
             /\ "filename" \in DOMAIN r
             /\ r.filename = HtmlFilename(r.id)
             /\ HtmlFilename(r.id) \in html_written)
    /\ [][FlushStep => \A i \in 1..Len(Last(flushes').lines) :
             HtmlFilename(Last(flushes').lines[i].id) \in html_written]_vars

\* C29: every crawl record that is buffered or was written in a chunk has
\* filename equal to "<id>.html" for its own id; an extraction record has no
\* field filename; for both jobs the file "<id>.html" was written in this
\* run before the record was buffered, hence before its chunk was flushed.
C29_ArtifactBeforeRecord ==
    /\ [](\A r \in BufferedOrFlushed :
             /\ IF stage = "crawl"
                THEN "filename" \in DOMAIN r /\ r.filename = HtmlFilename(r.id)
                ELSE "filename" \notin DOMAIN r
             /\ HtmlFilename(r.id) \in html_written)
    /\ [][FlushStep => \A i \in 1..Len(Last(flushes').lines) :
             HtmlFilename(Last(flushes').lines[i].id) \in html_written]_vars

\* a crawl run resumed from id 2 has flushed a chunk and buffered a record
C29_Witness ==
    /\ stage = "crawl"
    /\ previous_meta # <<>>
    /\ flushes # <<>>
    /\ new_meta_records # <<>>
    /\ \A r \in BufferedOrFlushed : r.id >= 2

\* C30: no flush uploads a chunk under a name (timestamp, chunk number)
\* that a chunk in the bucket already has: no uploaded chunk is replaced.
C30_ChunksAreNeverOverwritten ==
    [][(FlushStep /\ Last(flushes').uploaded)
          => \A b \in gcs_meta :
                 ~(b.ts = Last(flushes').ts /\ b.num = Last(flushes').num)]_vars

\* the records the other process has created
PeerThisRun ==
    SubSeq(peer.cumulative_meta, Len(peer.previous_meta) + 1,
           Len(peer.cumulative_meta))

\* two processes have loaded the same ledger and each has downloaded a page
BothFetched ==
    /\ stage = "crawl"
    /\ pc \in Running \cup {"done"}
    /\ peer.pc \in Running \cup {"done"}
    /\ previous_meta = peer.previous_meta
    /\ ThisRun # <<>>
    /\ PeerThisRun # <<>>

\* C21: when two crawl processes have loaded the same ledger and each has
\* downloaded a page, the first record of the one and the first record of
\* the other carry the same id, and so do the files written for them:
\* whatever the interleaving, nothing keeps the ids apart.
C21_ConcurrentRunsShareIds ==
    BothFetched
        => /\ ThisRun[1].id = PeerThisRun[1].id
           /\ ThisRun[1].id = InitialNextId(previous_meta)
           /\ HtmlFilename(ThisRun[1].id) \in html_written \cap peer.html_written

\* two processes, both still in their loop, started from a ledger that holds
\* a record, hold records of different pages with one id
C21_Witness ==
    /\ BothFetched
    /\ previous_meta # <<>>
    /\ pc \in Running
    /\ peer.pc \in Running
    /\ \E i \in 1..Len(ThisRun), j \in 1..Len(PeerThisRun) :
        /\ ThisRun[i].id = PeerThisRun[j].id
        /\ ThisRun[i].url # PeerThisRun[j].url

====
